---------------------------- MODULE Spec2Model ----------------------------
(***************************************************************************)
(* Catipedia automation scripts: build (BuildManager), deploy              *)
(* (DeploymentManager) and setup (SetupManager).  Each script is a linear  *)
(* sequence of awaited steps inside one try/catch whose handler calls      *)
(* process.exit(1).  A text is a sequence of one-character strings.        *)
(***************************************************************************)
EXTENDS Integers, Sequences, FiniteSets, TLC

(***************************************************************************)
(* Text helpers shared by the two minifiers.                               *)
(***************************************************************************)

\* Longest text drawn as an input of the minifiers.
MaxLen == 4

\* The characters texts are drawn from: a letter, the two whitespace
\* characters, and every character the minifiers' patterns mention.
Alphabet == {"a", " ", "\n", ";", "{", "}", "/", "*"}

\* JavaScript's \s restricted to the alphabet.
IsSpace(c) == c \in {" ", "\n"}

\* s.substring(i - 1): the text from position i (1-based) to the end.
Tail0(s, i) == IF i > Len(s) THEN << >> ELSE SubSeq(s, i, Len(s))

\* Does the two-character token c1 c2 start at position i of s?
At2(s, i, c1, c2) == i + 1 <= Len(s) /\ s[i] = c1 /\ s[i + 1] = c2

\* First position at or after i that holds no whitespace (Len(s)+1 if none).
RECURSIVE SkipSpace(_, _)
SkipSpace(s, i) ==
  IF i <= Len(s) /\ IsSpace(s[i]) THEN SkipSpace(s, i + 1) ELSE i

\* /\/\*[\s\S]*?\*\//g -> '': leftmost matches, each ending at the first
\* closing delimiter that starts at least two characters after the opener.
RECURSIVE CloseAt(_, _)
CloseAt(s, j) ==
  IF j + 1 > Len(s) THEN 0
  ELSE IF At2(s, j, "*", "/") THEN j ELSE CloseAt(s, j + 1)

RECURSIVE StripBlockComments(_, _)
StripBlockComments(s, i) ==
  IF i > Len(s) THEN << >>
  ELSE IF At2(s, i, "/", "*") /\ CloseAt(s, i + 2) # 0
       THEN StripBlockComments(s, CloseAt(s, i + 2) + 2)
       ELSE << s[i] >> \o StripBlockComments(s, i + 1)

\* /\/\/.*$/gm -> '': from a double slash up to, not including, the line end.
RECURSIVE LineEnd(_, _)
LineEnd(s, j) ==
  IF j > Len(s) \/ s[j] = "\n" THEN j ELSE LineEnd(s, j + 1)

RECURSIVE StripLineComments(_, _)
StripLineComments(s, i) ==
  IF i > Len(s) THEN << >>
  ELSE IF At2(s, i, "/", "/")
       THEN StripLineComments(s, LineEnd(s, i + 2))
       ELSE << s[i] >> \o StripLineComments(s, i + 1)

\* /\s+/g -> ' '
RECURSIVE CollapseSpace(_, _)
CollapseSpace(s, i) ==
  IF i > Len(s) THEN << >>
  ELSE IF IsSpace(s[i])
       THEN << " " >> \o CollapseSpace(s, SkipSpace(s, i))
       ELSE << s[i] >> \o CollapseSpace(s, i + 1)

\* /;\s*}/g -> '}'
RECURSIVE SemiBeforeBrace(_, _)
SemiBeforeBrace(s, i) ==
  IF i > Len(s) THEN << >>
  ELSE IF s[i] = ";" /\ SkipSpace(s, i + 1) <= Len(s)
                     /\ s[SkipSpace(s, i + 1)] = "}"
       THEN << "}" >> \o SemiBeforeBrace(s, SkipSpace(s, i + 1) + 1)
       ELSE << s[i] >> \o SemiBeforeBrace(s, i + 1)

\* /\s*{\s*/g -> '{'
RECURSIVE CleanBraces(_, _)
CleanBraces(s, i) ==
  IF i > Len(s) THEN << >>
  ELSE IF SkipSpace(s, i) <= Len(s) /\ s[SkipSpace(s, i)] = "{"
       THEN << "{" >> \o CleanBraces(s, SkipSpace(s, SkipSpace(s, i) + 1))
       ELSE << s[i] >> \o CleanBraces(s, i + 1)

\* /;\s*/g -> ';'
RECURSIVE CleanSemis(_, _)
CleanSemis(s, i) ==
  IF i > Len(s) THEN << >>
  ELSE IF s[i] = ";"
       THEN << ";" >> \o CleanSemis(s, SkipSpace(s, i + 1))
       ELSE << s[i] >> \o CleanSemis(s, i + 1)

\* String.prototype.trim
RECURSIVE TrimRight(_)
TrimRight(s) ==
  IF Len(s) > 0 /\ IsSpace(s[Len(s)])
  THEN TrimRight(SubSeq(s, 1, Len(s) - 1)) ELSE s

Trim(s) == TrimRight(Tail0(s, SkipSpace(s, 1)))

\* BuildManager.minifyCSS
minifyCSS(css) ==
  Trim(CleanSemis(CleanBraces(SemiBeforeBrace(CollapseSpace(
       StripBlockComments(css, 1), 1), 1), 1), 1))

\* BuildManager.minifyJS
minifyJS(js) ==
  Trim(SemiBeforeBrace(CollapseSpace(StripLineComments(
       StripBlockComments(js, 1), 1), 1), 1))

\* A text contains a comment delimiter: slash-star, star-slash or two slashes.
HasCommentDelimiter(s) ==
  \E i \in 1..Len(s) :
    At2(s, i, "/", "*") \/ At2(s, i, "*", "/") \/ At2(s, i, "/", "/")

RECURSIVE TextsOfLen(_)
TextsOfLen(n) ==
  IF n = 0 THEN {<< >>}
  ELSE {Append(t, c) : t \in TextsOfLen(n - 1), c \in Alphabet}

Texts == UNION {TextsOfLen(n) : n \in 0..MaxLen}

(***************************************************************************)
(* File system.  A path is a sequence of names relative to the working     *)
(* directory (<< >>), which always exists.  fs.dirs is the set of          *)
(* directories, fs.files maps each regular file to its text, and fs.json   *)
(* holds the object serialised into a file written with JSON.stringify.    *)
(***************************************************************************)

Parent(p) == SubSeq(p, 1, Len(p) - 1)

\* d is p or an ancestor of p.
IsPrefix(d, p) == Len(d) <= Len(p) /\ SubSeq(p, 1, Len(d)) = d

IsDir(f, p) == p = << >> \/ p \in f.dirs
IsFile(f, p) == p \in DOMAIN f.files

\* fs.existsSync
existsSync(f, p) == IsDir(f, p) \/ IsFile(f, p)

\* fs.rmSync(p, { recursive: true, force: true })
rmSync(f, p) ==
  [dirs  |-> {d \in f.dirs : ~IsPrefix(p, d)},
   files |-> [q \in {q \in DOMAIN f.files : ~IsPrefix(p, q)} |-> f.files[q]],
   json  |-> [q \in {q \in DOMAIN f.json : ~IsPrefix(p, q)} |-> f.json[q]]]

\* fs.mkdirSync(p, { recursive: true }) succeeds unless a file is in the way.
mkdirOk(f, p) == \A k \in 1..Len(p) : ~IsFile(f, SubSeq(p, 1, k))
mkdirSync(f, p) ==
  [f EXCEPT !.dirs = @ \cup {SubSeq(p, 1, k) : k \in 1..Len(p)}]

\* fs.writeFileSync / the destination side of fs.copyFileSync: the parent
\* directory must exist and the destination must not be a directory.
writeOk(f, p) == IsDir(f, Parent(p)) /\ ~IsDir(f, p)
writeFileSync(f, p, text) ==
  [f EXCEPT !.files = (p :> text) @@ @,
            !.json  = [q \in DOMAIN @ \ {p} |-> @[q]]]

\* fs.copyFileSync
copyOk(f, src, dest) == IsFile(f, src) /\ writeOk(f, dest)
copyFileSync(f, src, dest) == writeFileSync(f, dest, f.files[src])

\* fs.readdirSync: the names of the entries directly inside dir.
readdirSync(f, dir) ==
  {p[Len(p)] : p \in {q \in f.dirs \cup DOMAIN f.files :
                        Len(q) = Len(dir) + 1 /\ IsPrefix(dir, q)}}

\* path.relative(base, p) for p inside base.
relative(base, p) == Tail0(p, Len(base) + 1)

\* The file names of the model and what follows their last dot.
Ext(name) ==
  CASE name \in {"a.css", "x.css"} -> ".css"
    [] name \in {"b.js", "app.js", "old.js"} -> ".js"
    [] name \in {"hashes.json", "manifest.json", "package.json"} -> ".json"
    [] name \in {"index.html", "article.html", "compare.html"} -> ".html"
    [] name \in {"notes.txt", "data.txt", "robots.txt"} -> ".txt"
    [] name = "favicon.svg" -> ".svg"
    [] name = "sitemap.xml" -> ".xml"
    [] name = "wrangler.toml" -> ".toml"
    [] OTHER -> ""

\* name.endsWith(suffix) for the suffixes the build tests: none of the
\* names above ends in .css or .js unless that is its whole extension.
endsWith(name, suffix) == Ext(name) = suffix

(***************************************************************************)
(* Texts of the files of the model and their MD5 digests in hex.           *)
(***************************************************************************)
PlainText   == <<"a">>
CssText     == <<"a", "{", " ", "a", ";", "/", "*", "a", "*", "/", " ", "}">>
JsText      == <<"a", ";", "/", "/", "a", "\n", "a", ";", " ", "}">>
SrcJsText   == <<"a", ";">>
SrcCssText  == <<"a", "{", "}">>

Md5Hex(text) ==
  CASE text = CssText ->
         <<"3","b","6","2","d","d","0","f","7","c","5","c","c","1","d","9",
           "5","3","a","5","c","7","b","f","5","b","5","a","d","a","c","3">>
    [] text = <<"a", "{", "a", "}">> ->
         <<"2","1","b","0","3","0","4","4","9","2","b","4","e","8","0","8",
           "3","1","d","6","6","a","b","d","7","8","5","1","4","f","2","9">>
    [] text = <<"a", "{", " ", "a", "}">> ->
         <<"8","e","b","b","9","d","2","a","0","6","d","5","d","e","5","9",
           "3","2","1","8","e","0","c","9","d","f","7","1","6","7","8","9">>
    [] text = JsText ->
         <<"e","9","e","9","5","1","0","f","4","b","3","b","1","b","b","c",
           "4","e","a","d","9","f","3","8","7","2","d","8","e","6","9","a">>
    [] text = <<"a", ";", "/", "/", "a", " ", "a", "}">> ->
         <<"b","4","4","9","8","d","2","2","c","6","b","7","e","4","9","e",
           "1","0","b","1","5","c","f","6","c","6","d","e","c","3","d","b">>
    [] text = <<"a", ";", " ", "a", "}">> ->
         <<"a","2","f","9","2","c","a","0","3","8","3","c","1","b","b","e",
           "6","1","7","f","7","7","d","d","e","0","d","7","d","9","e","a">>
    [] text = SrcJsText ->
         <<"8","d","c","9","9","7","9","8","0","a","4","d","9","3","1","1",
           "8","0","4","6","1","4","6","0","7","a","0","8","0","1","5","2">>
    [] text = SrcCssText ->
         <<"3","0","7","c","c","2","2","f","a","7","7","6","9","c","0","9",
           "3","8","6","c","1","c","9","0","f","e","3","6","b","b","c","6">>
    [] text = PlainText ->
         <<"0","c","c","1","7","5","b","9","c","0","f","1","b","6","a","8",
           "3","1","c","3","9","9","e","2","6","9","7","7","2","6","6","1">>

\* crypto.createHash('md5').update(content).digest('hex').substring(0, 8)
hash(content) == SubSeq(Md5Hex(content), 1, 8)

HexDigits == {"0","1","2","3","4","5","6","7","8","9","a","b","c","d","e","f"}

(***************************************************************************)
(* Process state shared by the three scripts.                              *)
(***************************************************************************)
VARIABLES
  stage,     \* which script was started: "build", "deploy", "setup", "minify"
  args,      \* process.argv.slice(2)
  nodeEnv,   \* process.env.NODE_ENV
  manager,   \* the BuildManager / DeploymentManager / SetupManager object
  pc,        \* "cli", the name of the step to run next, or "exit"
  steps,     \* the steps started so far, in order
  exitCode,  \* -1 while the process runs, then its exit status
  failure,   \* the error that reached the catch handler, or NoError
  warnings,  \* warnings and non-fatal errors printed so far
  cmds,      \* the external commands run by execSync so far, in order
  fs,        \* the file system
  fs0,       \* the file system as it was when the script started
  mText,     \* minify check: the input text
  mOut,      \* minify check: the outputs of the passes applied so far
  raised     \* the fs calls that have thrown so far, caught or not

vars == <<stage, args, nodeEnv, manager, pc, steps, exitCode, failure,
          warnings, cmds, fs, fs0, mText, mOut, raised>>

\* An Error: the message prefix the step's catch block adds, the failing
\* call or check, the system error code of a failed call ("" for an error
\* the script itself throws) and the files the message lists.
NoError == [msg |-> "", cause |-> "", code |-> "", files |-> << >>]
Error(msg, cause, code) ==
  [msg |-> msg, cause |-> cause, code |-> code, files |-> << >>]

\* The code of a failing fs call: EACCES when the failure is the injected
\* fault (a cause outside the modelled tree, such as permissions), else
\* the code the state of the tree produces.
Errno(fault, call, natural) == IF fault = call THEN "EACCES" ELSE natural

NoManager == [constructed |-> FALSE]

\* What a step hands back: the file system it leaves, the error it throws
\* (NoError when it returns), the warnings it prints, the commands it ran.
\* An error with a system code comes from an fs call that threw.
Result(f, err, warn, run) ==
  [fs |-> f, err |-> err, warn |-> warn, run |-> run,
   raised |-> IF err.code # "" THEN {[call |-> err.cause, code |-> err.code]}
              ELSE {}]
Ok(f) == Result(f, NoError, {}, << >>)
Throw(f, msg, cause, code) == Result(f, Error(msg, cause, code), {}, << >>)


\* The try/catch with the handler missing: a failed step is followed by the
\* next one.
RunOn_NoCatch(order, step, err) ==
  LET i == CHOOSE k \in 1..Len(order) : order[k] = step IN
  IF i = Len(order) THEN [pc |-> "exit", exitCode |-> 0]
  ELSE [pc |-> order[i + 1], exitCode |-> -1]

\* The try/catch of build(), run() and setup(): the step after `step` when it
\* returned, process.exit(1) when it threw; falling off the end exits with 0.
RunOn(order, step, err) ==
  LET i == CHOOSE k \in 1..Len(order) : order[k] = step IN
  IF err # NoError THEN [pc |-> "exit", exitCode |-> 1]
  ELSE IF i = Len(order) THEN [pc |-> "exit", exitCode |-> 0]
  ELSE [pc |-> order[i + 1], exitCode |-> -1]

\* One awaited step of a script: its effects, then the try/catch.
Step(order, step, r) ==
  /\ pc = step
  /\ steps' = Append(steps, step)
  /\ fs' = r.fs
  /\ warnings' = warnings \cup r.warn
  /\ cmds' = cmds \o r.run
  /\ failure' = r.err
  /\ pc' = RunOn(order, step, r.err).pc
  /\ exitCode' = RunOn(order, step, r.err).exitCode
  /\ raised' = raised \cup {[step |-> step, call |-> e.call, code |-> e.code]
                            : e \in r.raised}
  /\ UNCHANGED <<stage, args, nodeEnv, manager, fs0, mText, mOut>>

(***************************************************************************)
(* Build script.                                                           *)
(***************************************************************************)
BUILD_CONFIG ==
  [srcDir |-> <<"src">>, distDir |-> <<"dist">>, publicDir |-> <<"public">>,
   cssDir |-> <<"css">>, jsDir |-> <<"js">>, assetsDir |-> <<"assets">>,
   tempDir |-> <<"temp">>]

\* The CLI's options object.
BuildOptions(a) ==
  [production |-> "--production" \in a \/ "-p" \in a,
   verbose    |-> "--verbose" \in a \/ "-v" \in a,
   clean      |-> "--no-clean" \notin a]

\* BuildManager.constructor
BuildManager(options, env) ==
  [constructed  |-> TRUE,
   isProduction |-> options.production \/ env = "production",
   verbose      |-> options.verbose,
   clean        |-> options.clean # FALSE]


\* cleanBuild without the removal: only the mkdirSync call is left.
cleanBuild_NoRemove(f, m, fault) ==
  IF ~m.clean THEN Ok(f)
  ELSE IF fault = "mkdirSync" \/ ~mkdirOk(f, BUILD_CONFIG.distDir)
       THEN Throw(f, "Failed to clean build directory", "mkdirSync",
                  Errno(fault, "mkdirSync", "EEXIST"))
       ELSE Ok(mkdirSync(f, BUILD_CONFIG.distDir))

\* cleanBuild creating the output directory even when the wipe is skipped.
cleanBuild_MkdirWhenSkipped(f, m, fault) ==
  LET g == IF m.clean /\ existsSync(f, BUILD_CONFIG.distDir)
           THEN rmSync(f, BUILD_CONFIG.distDir) ELSE f
  IN IF m.clean /\ existsSync(f, BUILD_CONFIG.distDir) /\ fault = "rmSync"
     THEN Throw(f, "Failed to clean build directory", "rmSync", "EACCES")
     ELSE IF fault = "mkdirSync" \/ ~mkdirOk(g, BUILD_CONFIG.distDir)
     THEN Throw(g, "Failed to clean build directory", "mkdirSync",
                Errno(fault, "mkdirSync", "EEXIST"))
     ELSE Ok(mkdirSync(g, BUILD_CONFIG.distDir))

\* BuildManager.cleanBuild; fault names the fs call that raises, if any.
cleanBuild(f, m, fault) ==
  IF ~m.clean THEN Ok(f)
  ELSE IF existsSync(f, BUILD_CONFIG.distDir) /\ fault = "rmSync"
       THEN Throw(f, "Failed to clean build directory", "rmSync", "EACCES")
  ELSE LET g == IF existsSync(f, BUILD_CONFIG.distDir)
                THEN rmSync(f, BUILD_CONFIG.distDir) ELSE f
       IN IF fault = "mkdirSync" \/ ~mkdirOk(g, BUILD_CONFIG.distDir)
          THEN Throw(g, "Failed to clean build directory", "mkdirSync",
                     Errno(fault, "mkdirSync", "EEXIST"))
          ELSE Ok(mkdirSync(g, BUILD_CONFIG.distDir))

staticFiles ==
  << [src |-> <<"index.html">>,    dest |-> <<"index.html">>],
     [src |-> <<"article.html">>,  dest |-> <<"article.html">>],
     [src |-> <<"compare.html">>,  dest |-> <<"compare.html">>],
     [src |-> <<"favicon.svg">>,   dest |-> <<"favicon.svg">>],
     [src |-> <<"manifest.json">>, dest |-> <<"manifest.json">>],
     [src |-> <<"robots.txt">>,    dest |-> <<"robots.txt">>],
     [src |-> <<"sitemap.xml">>,   dest |-> <<"sitemap.xml">>] >>


\* The loop of copyStaticFiles without the existsSync test: an absent
\* source is handed to copyFileSync, which throws ENOENT.
RECURSIVE CopyStaticFrom_NoExistsTest(_, _, _)
CopyStaticFrom_NoExistsTest(f, i, fault) ==
  IF i > Len(staticFiles) THEN Ok(f)
  ELSE LET destPath == BUILD_CONFIG.distDir \o staticFiles[i].dest IN
       IF fault = "copyFileSync" \/ ~copyOk(f, staticFiles[i].src, destPath)
       THEN Throw(f, "Failed to copy static files", "copyFileSync",
                  Errno(fault, "copyFileSync", "ENOENT"))
       ELSE CopyStaticFrom_NoExistsTest(
              copyFileSync(f, staticFiles[i].src, destPath), i + 1, fault)

\* The loop of copyStaticFiles from entry i on.
RECURSIVE CopyStaticFrom(_, _, _)
CopyStaticFrom(f, i, fault) ==
  IF i > Len(staticFiles) THEN Ok(f)
  ELSE IF existsSync(f, staticFiles[i].src)
       THEN LET destPath == BUILD_CONFIG.distDir \o staticFiles[i].dest IN
            IF fault = "copyFileSync"
               \/ ~copyOk(f, staticFiles[i].src, destPath)
            THEN Throw(f, "Failed to copy static files", "copyFileSync",
                       Errno(fault, "copyFileSync", "ENOENT"))
            ELSE CopyStaticFrom(copyFileSync(f, staticFiles[i].src, destPath),
                                i + 1, fault)
       ELSE CopyStaticFrom(f, i + 1, fault)

\* BuildManager.copyStaticFiles
copyStaticFiles(f, m, fault) == CopyStaticFrom(f, 1, fault)


\* Processed with the isProduction test dropped: every file is minified.
Processed_AlwaysMinify(kind, m, content) ==
  IF kind = "css" THEN minifyCSS(content) ELSE minifyJS(content)

\* What processCSS / processJS write for a file's content.
Processed(kind, m, content) ==
  IF m.isProduction
  THEN (IF kind = "css" THEN minifyCSS(content) ELSE minifyJS(content))
  ELSE content

\* The loop of processCSS / processJS over the remaining file names.
RECURSIVE ProcessFiles(_, _, _, _, _, _)
ProcessFiles(f, kind, m, sourceDir, destDir, names) ==
  IF names = {} THEN Ok(f)
  ELSE LET n == CHOOSE x \in names : TRUE
           srcPath == Append(sourceDir, n)
           destPath == Append(destDir, n)
       IN IF ~IsFile(f, srcPath)
          THEN Throw(f, "Failed to process", "readFileSync", "EISDIR")
          ELSE IF ~writeOk(f, destPath)
          THEN Throw(f, "Failed to process", "writeFileSync", "EISDIR")
          ELSE ProcessFiles(
                 writeFileSync(f, destPath, Processed(kind, m, f.files[srcPath])),
                 kind, m, sourceDir, destDir, names \ {n})

\* The common body of processCSS and processJS.
ProcessKind(f, m, fault, kind, sourceDir, suffix, skipped, failed) ==
  LET destDir == Append(BUILD_CONFIG.distDir, kind) IN
  IF ~existsSync(f, sourceDir) THEN Result(f, NoError, {skipped}, << >>)
  ELSE IF fault = "mkdirSync" \/ ~mkdirOk(f, destDir)
       THEN Throw(f, failed, "mkdirSync", Errno(fault, "mkdirSync", "EEXIST"))
  ELSE IF ~IsDir(f, sourceDir)
       THEN Throw(mkdirSync(f, destDir), failed, "readdirSync", "ENOTDIR")
  ELSE LET g == mkdirSync(f, destDir)
           names == {n \in readdirSync(g, sourceDir) : endsWith(n, suffix)}
           r == ProcessFiles(g, kind, m, sourceDir, destDir, names)
       IN IF r.err = NoError THEN r
          ELSE Throw(r.fs, failed, r.err.cause, r.err.code)

\* BuildManager.processCSS
processCSS(f, m, fault) ==
  ProcessKind(f, m, fault, "css", BUILD_CONFIG.cssDir, ".css",
              "No CSS directory found, skipping CSS processing",
              "Failed to process CSS")

\* BuildManager.processJS
processJS(f, m, fault) ==
  ProcessKind(f, m, fault, "js", BUILD_CONFIG.jsDir, ".js",
              "No JS directory found, skipping JS processing",
              "Failed to process JavaScript")

\* BuildManager.copyDirectory with its loop over the entries still to copy;
\* the result is the file system left and whether a call threw.
RECURSIVE copyDirectory(_, _, _), CopyEntries(_, _, _, _)
copyDirectory(f, src, dest) ==
  IF ~existsSync(f, src) THEN [fs |-> f, ok |-> TRUE]
  ELSE IF ~mkdirOk(f, dest) \/ ~IsDir(f, src) THEN [fs |-> f, ok |-> FALSE]
  ELSE CopyEntries(mkdirSync(f, dest), src, dest, readdirSync(f, src))

CopyEntries(f, src, dest, names) ==
  IF names = {} THEN [fs |-> f, ok |-> TRUE]
  ELSE LET n == CHOOSE x \in names : TRUE
           srcPath == Append(src, n)
           destPath == Append(dest, n)
           r == IF IsDir(f, srcPath) THEN copyDirectory(f, srcPath, destPath)
                ELSE IF copyOk(f, srcPath, destPath)
                     THEN [fs |-> copyFileSync(f, srcPath, destPath), ok |-> TRUE]
                     ELSE [fs |-> f, ok |-> FALSE]
       IN IF r.ok THEN CopyEntries(r.fs, src, dest, names \ {n}) ELSE r

\* BuildManager.processSrcFiles
processSrcFiles(f, m, fault) ==
  IF ~existsSync(f, BUILD_CONFIG.srcDir) THEN Ok(f)
  ELSE IF fault = "copyDirectory"
       THEN Throw(f, "Failed to process source files", "copyDirectory",
                  "EACCES")
  ELSE LET r == copyDirectory(f, BUILD_CONFIG.srcDir,
                              Append(BUILD_CONFIG.distDir, "src"))
       IN IF r.ok THEN Ok(r.fs)
          ELSE Throw(r.fs, "Failed to process source files", "copyDirectory",
                     "ENOENT")


\* hashFiles without the recursion into subdirectories.
hashFiles_TopLevelOnly(f, dir) ==
  IF ~existsSync(f, dir) THEN {}
  ELSE {<< relative(BUILD_CONFIG.distDir, Append(dir, name)),
           hash(f.files[Append(dir, name)]) >>
          : name \in {n \in readdirSync(f, dir) :
                        /\ IsFile(f, Append(dir, n))
                        /\ (endsWith(n, ".css") \/ endsWith(n, ".js"))}}

\* The hashFiles closure of generateHashes: the (relative path, hash) pairs
\* it records while walking dir.
RECURSIVE hashFiles(_, _)
hashFiles(f, dir) ==
  IF ~existsSync(f, dir) THEN {}
  ELSE UNION {
         LET fullPath == Append(dir, name) IN
         IF IsDir(f, fullPath) THEN hashFiles(f, fullPath)
         ELSE IF IsFile(f, fullPath)
                 /\ (endsWith(name, ".css") \/ endsWith(name, ".js"))
              THEN {<< relative(BUILD_CONFIG.distDir, fullPath),
                       hash(f.files[fullPath]) >>}
              ELSE {}
         : name \in readdirSync(f, dir)}

\* The hashMap object the pairs build: one property per relative path.
HashMapOf(pairs) ==
  [k \in {e[1] : e \in pairs} |-> (CHOOSE e \in pairs : e[1] = k)[2]]

\* BuildManager.generateHashes
generateHashes(f, m, fault) ==
  IF ~m.isProduction THEN Ok(f)
  ELSE LET hashMapPath == Append(BUILD_CONFIG.distDir, "hashes.json") IN
       IF IsFile(f, BUILD_CONFIG.distDir)
       THEN Throw(f, "Failed to generate hashes", "readdirSync", "ENOTDIR")
       ELSE IF fault = "writeFileSync" \/ ~writeOk(f, hashMapPath)
       THEN Throw(f, "Failed to generate hashes", "writeFileSync",
                  Errno(fault, "writeFileSync", "ENOENT"))
       ELSE LET g == writeFileSync(f, hashMapPath, PlainText) IN
            Ok([g EXCEPT !.json = (hashMapPath :>
                         HashMapOf(hashFiles(f, BUILD_CONFIG.distDir))) @@ @])

requiredFiles == << <<"index.html">> >>


\* validateBuild with the required-files test dropped: only the emptiness
\* of the directory is checked.
validateBuild_NoRequiredFiles(f, m, fault) ==
  IF fault = "readdirSync" \/ ~IsDir(f, BUILD_CONFIG.distDir)
  THEN Throw(f, "Build validation failed", "readdirSync",
             Errno(fault, "readdirSync", "ENOENT"))
  ELSE IF readdirSync(f, BUILD_CONFIG.distDir) = {}
  THEN Throw(f, "Build validation failed", "Build directory is empty", "")
  ELSE Ok(f)

\* validateBuild with its two checks swapped: the directory is listed
\* before the required files are looked for.
validateBuild_EmptyFirst(f, m, fault) ==
  LET missingFiles ==
        SelectSeq(requiredFiles,
                  LAMBDA file : ~existsSync(f, BUILD_CONFIG.distDir \o file))
  IN IF fault = "readdirSync" \/ ~IsDir(f, BUILD_CONFIG.distDir)
     THEN Throw(f, "Build validation failed", "readdirSync",
                Errno(fault, "readdirSync", "ENOENT"))
     ELSE IF readdirSync(f, BUILD_CONFIG.distDir) = {}
     THEN Throw(f, "Build validation failed", "Build directory is empty", "")
     ELSE IF Len(missingFiles) > 0
     THEN Result(f, [msg |-> "Build validation failed",
                     cause |-> "Missing required files", code |-> "",
                     files |-> missingFiles], {}, << >>)
     ELSE Ok(f)

\* BuildManager.validateBuild
validateBuild(f, m, fault) ==
  LET missingFiles ==
        SelectSeq(requiredFiles,
                  LAMBDA file : ~existsSync(f, BUILD_CONFIG.distDir \o file))
  IN IF Len(missingFiles) > 0
     THEN Result(f, [msg |-> "Build validation failed",
                     cause |-> "Missing required files", code |-> "",
                     files |-> missingFiles], {}, << >>)
     ELSE IF fault = "readdirSync" \/ ~IsDir(f, BUILD_CONFIG.distDir)
     THEN Throw(f, "Build validation failed", "readdirSync",
                Errno(fault, "readdirSync", "ENOTDIR"))
     ELSE IF readdirSync(f, BUILD_CONFIG.distDir) = {}
     THEN Throw(f, "Build validation failed", "Build directory is empty", "")
     ELSE Ok(f)

\* The steps of BuildManager.build in the order it awaits them.
BuildSteps ==
  <<"cleanBuild", "copyStaticFiles", "processCSS", "processJS",
    "processSrcFiles", "generateHashes", "validateBuild">>

\* The build script's CLI: parse the flags and construct the BuildManager.
BuildCLI ==
  /\ stage = "build" /\ pc = "cli"
  /\ manager' = BuildManager(BuildOptions(args), nodeEnv)
  /\ pc' = BuildSteps[1]
  /\ UNCHANGED <<stage, args, nodeEnv, steps, exitCode, failure, warnings,
                 cmds, fs, fs0, mText, mOut, raised>>

CleanBuild ==
  /\ stage = "build"
  /\ \E fault \in {"none", "rmSync", "mkdirSync"} :
       Step(BuildSteps, "cleanBuild", cleanBuild(fs, manager, fault))

CopyStaticFiles ==
  /\ stage = "build"
  /\ \E fault \in {"none", "copyFileSync"} :
       Step(BuildSteps, "copyStaticFiles", copyStaticFiles(fs, manager, fault))

ProcessCSS ==
  /\ stage = "build"
  /\ \E fault \in {"none", "mkdirSync"} :
       Step(BuildSteps, "processCSS", processCSS(fs, manager, fault))

ProcessJS ==
  /\ stage = "build"
  /\ \E fault \in {"none", "mkdirSync"} :
       Step(BuildSteps, "processJS", processJS(fs, manager, fault))

ProcessSrcFiles ==
  /\ stage = "build"
  /\ \E fault \in {"none", "copyDirectory"} :
       Step(BuildSteps, "processSrcFiles", processSrcFiles(fs, manager, fault))

GenerateHashes ==
  /\ stage = "build"
  /\ \E fault \in {"none", "writeFileSync"} :
       Step(BuildSteps, "generateHashes", generateHashes(fs, manager, fault))

ValidateBuild ==
  /\ stage = "build"
  /\ \E fault \in {"none", "readdirSync"} :
       Step(BuildSteps, "validateBuild", validateBuild(fs, manager, fault))

Build ==
  \/ BuildCLI
  \/ CleanBuild
  \/ CopyStaticFiles
  \/ ProcessCSS
  \/ ProcessJS
  \/ ProcessSrcFiles
  \/ GenerateHashes
  \/ ValidateBuild

(***************************************************************************)
(* The project trees a build starts from.                                  *)
(***************************************************************************)
EmptyFs == [dirs |-> {}, files |-> << >>, json |-> << >>]

\* Merge two trees over disjoint paths.
Merge(f, g) ==
  [dirs |-> f.dirs \cup g.dirs, files |-> f.files @@ g.files,
   json |-> f.json @@ g.json]

Files(paths, text) == [EmptyFs EXCEPT !.files = [p \in paths |-> text]]

CssTree(how) ==
  CASE how = "absent" -> EmptyFs
    [] how = "empty"  -> [EmptyFs EXCEPT !.dirs = {<<"css">>}]
    [] how = "files"  ->
         [EmptyFs EXCEPT !.dirs = {<<"css">>},
                         !.files = (<<"css", "a.css">> :> CssText)
                                   @@ (<<"css", "notes.txt">> :> PlainText)]

JsTree(how) ==
  CASE how = "absent" -> EmptyFs
    [] how = "files"  ->
         [EmptyFs EXCEPT !.dirs = {<<"js">>},
                         !.files = (<<"js", "b.js">> :> JsText)]

SrcTree(how) ==
  CASE how = "absent" -> EmptyFs
    [] how = "tree"   ->
         [EmptyFs EXCEPT !.dirs = {<<"src">>, <<"src", "lib">>},
                         !.files = (<<"src", "app.js">> :> SrcJsText)
                                   @@ (<<"src", "lib", "x.css">> :> SrcCssText)
                                   @@ (<<"src", "data.txt">> :> PlainText)]

\* An output directory left by an earlier build.
DistTree(how) ==
  CASE how = "absent" -> EmptyFs
    [] how = "empty"  -> [EmptyFs EXCEPT !.dirs = {<<"dist">>}]
    [] how = "stale"  ->
         [dirs  |-> {<<"dist">>, <<"dist", "css">>},
          files |-> (<<"dist", "old.js">> :> PlainText)
                    @@ (<<"dist", "css", "a.css">> :> SrcCssText)
                    @@ (<<"dist", "article.html">> :> PlainText)
                    @@ (<<"dist", "hashes.json">> :> PlainText),
          json  |-> (<<"dist", "hashes.json">> :>
                       (<<"old.js">> :> hash(PlainText)))]

BuildTrees ==
  {Merge(Files(static, PlainText),
         Merge(CssTree(css), Merge(JsTree(js), Merge(SrcTree(src), DistTree(dist)))))
     : static \in SUBSET {<<"index.html">>, <<"article.html">>},
       css \in {"absent", "empty", "files"},
       js \in {"absent", "files"},
       src \in {"absent", "tree"},
       dist \in {"absent", "empty", "stale"}}

BuildFlags == {"--production", "-p", "--no-clean", "--verbose"}

InitBuild ==
  /\ stage = "build"
  /\ args \in SUBSET BuildFlags
  /\ nodeEnv \in {"", "production"}
  /\ fs \in BuildTrees

(***************************************************************************)
(* Deploy script.                                                          *)
(***************************************************************************)
CONFIG ==
  [development |-> [buildDir |-> <<"dist">>,
                    deployTarget |-> "dev.catipedia.com", branch |-> "develop"],
   staging     |-> [buildDir |-> <<"dist">>,
                    deployTarget |-> "staging.catipedia.com", branch |-> "staging"],
   production  |-> [buildDir |-> <<"dist">>,
                    deployTarget |-> "catipedia.com", branch |-> "main"]]

\* The properties every object literal inherits from Object.prototype.
ObjectPrototype ==
  {"constructor", "toString", "toLocaleString", "valueOf", "hasOwnProperty",
   "isPrototypeOf", "propertyIsEnumerable", "__proto__"}

\* CONFIG[environment]: an own property, else one inherited from
\* Object.prototype (a function or object without the configuration's
\* properties), else undefined.  truthy is what `!this.config` tests.
ConfigLookup(environment) ==
  IF environment \in DOMAIN CONFIG
  THEN [truthy |-> TRUE, props |-> CONFIG[environment]]
  ELSE IF environment \in ObjectPrototype
       THEN [truthy |-> TRUE, props |-> << >>]
       ELSE [truthy |-> FALSE, props |-> << >>]

HasProp(config, name) == name \in DOMAIN config.props

\* args[0] || 'development'
EnvironmentOf(a) == IF a = << >> \/ a[1] = "" THEN "development" ELSE a[1]

\* DeploymentManager.constructor: the object built, or the error thrown.
DeploymentManager(environment) ==
  IF ~ConfigLookup(environment).truthy
  THEN [constructed |-> FALSE, environment |-> environment,
        config |-> ConfigLookup(environment)]
  ELSE [constructed |-> TRUE, environment |-> environment,
        config |-> ConfigLookup(environment)]

\* One execSync call: the command line and the exit status of the child.
Cmd(line, status) == [cmd |-> line, project |-> << >>, status |-> status]


\* preDeploymentChecks letting a failed `git status` escape.
preDeploymentChecks_Strict(f, m, branch, porcelain) ==
  IF porcelain = "throw"
  THEN Result(f, Error("Failed to check git status", "", ""), {},
              << Cmd("git branch --show-current",
                     IF branch = "throw" THEN 1 ELSE 0),
                 Cmd("git status --porcelain", 1) >>)
  ELSE Result(f,
              IF existsSync(f, <<"package.json">>) THEN NoError
              ELSE Error("package.json not found in current directory", "", ""),
              IF branch = "throw" THEN {"Failed to check git branch"} ELSE {},
              << Cmd("git branch --show-current",
                     IF branch = "throw" THEN 1 ELSE 0),
                 Cmd("git status --porcelain", 0) >>)

\* DeploymentManager.preDeploymentChecks.  branch is what `git branch
\* --show-current` prints and porcelain what `git status --porcelain`
\* prints; "throw" stands for execSync throwing.
preDeploymentChecks(f, m, branch, porcelain) ==
  LET w1 == IF branch = "throw" THEN {"Failed to check git branch"}
            ELSE IF ~HasProp(m.config, "branch") \/ branch # m.config.props.branch
                 THEN {"Current branch doesn't match target branch"}
                 ELSE {}
      w2 == IF porcelain = "throw" THEN {"Failed to check git status"}
            ELSE IF porcelain # "" THEN {"You have uncommitted changes"}
                 ELSE {}
      run == << Cmd("git branch --show-current",
                    IF branch = "throw" THEN 1 ELSE 0),
                Cmd("git status --porcelain",
                    IF porcelain = "throw" THEN 1 ELSE 0) >>
  IN IF ~existsSync(f, <<"package.json">>)
     THEN Result(f, Error("package.json not found in current directory", "", ""),
                 w1 \cup w2, run)
     ELSE Result(f, NoError, w1 \cup w2, run)

\* buildProject with the exit status of `npm run build` ignored.
buildProject_IgnoreBuildStatus(f, m, ci, build, out) ==
  IF ci # 0
  THEN Result(f, Error("Build failed", "npm ci", ""), {}, << Cmd("npm ci", ci) >>)
  ELSE LET run == << Cmd("npm ci", ci), Cmd("npm run build", build) >> IN
       IF ~(HasProp(m.config, "buildDir")
            /\ existsSync(out, m.config.props.buildDir))
       THEN Result(out, Error("Build failed", "Build directory not found", ""),
                   {}, run)
       ELSE Result(out, NoError, {}, run)

\* DeploymentManager.buildProject.  ci and build are the exit statuses of
\* the two npm commands; out is the tree `npm run build` leaves behind.
buildProject(f, m, ci, build, out) ==
  IF ci # 0
  THEN Result(f, Error("Build failed", "npm ci", ""), {}, << Cmd("npm ci", ci) >>)
  ELSE LET run == << Cmd("npm ci", ci), Cmd("npm run build", build) >> IN
       IF build # 0
       THEN Result(out, Error("Build failed", "npm run build", ""), {}, run)
       ELSE IF ~(HasProp(m.config, "buildDir")
                 /\ existsSync(out, m.config.props.buildDir))
       THEN Result(out, Error("Build failed", "Build directory not found", ""),
                   {}, run)
       ELSE Result(out, NoError, {}, run)


\* runTests with the environment test dropped: a failure only warns.
runTests_NeverFatal(f, m, test) ==
  Result(f, NoError,
         IF test = 0 THEN {}
         ELSE {"Tests failed, but continuing deployment for non-production environment"},
         << Cmd("npm test", test) >>)

\* DeploymentManager.runTests
runTests(f, m, test) ==
  IF test = 0 THEN Result(f, NoError, {}, << Cmd("npm test", test) >>)
  ELSE IF m.environment = "production"
       THEN Result(f, Error("Tests failed", "npm test", ""), {},
                   << Cmd("npm test", test) >>)
       ELSE Result(f, NoError,
                   {"Tests failed, but continuing deployment for non-production environment"},
                   << Cmd("npm test", test) >>)

\* The command line deploy() builds: the project name is catipedia in
\* production and catipedia-<environment> elsewhere.
deployCommand(m, status) ==
  [cmd |-> "npx wrangler pages deploy ./dist --project-name=",
   project |-> IF m.environment = "production" THEN <<"catipedia">>
               ELSE <<"catipedia", m.environment>>,
   status |-> status]

\* DeploymentManager.deploy
deploy(f, m, wrangler) ==
  IF existsSync(f, <<"wrangler.toml">>)
  THEN IF wrangler # 0
       THEN Result(f, Error("Deployment failed", "npx wrangler", ""), {},
                   << deployCommand(m, wrangler) >>)
       ELSE Result(f, NoError, {}, << deployCommand(m, wrangler) >>)
  ELSE Ok(f)

\* DeploymentManager.postDeployment: placeholders only, nothing can throw.
postDeployment(f, m) == Ok(f)

\* The steps of DeploymentManager.run in the order it awaits them.
DeploySteps ==
  <<"preDeploymentChecks", "buildProject", "runTests", "deploy",
    "postDeployment">>

\* The deploy script's CLI: construct the DeploymentManager outside any
\* try/catch; an exception thrown by the constructor is uncaught and ends
\* the process with status 1 before run() is called.
DeployCLI ==
  /\ stage = "deploy" /\ pc = "cli"
  /\ manager' = DeploymentManager(EnvironmentOf(args))
  /\ IF manager'.constructed
     THEN /\ pc' = DeploySteps[1]
          /\ UNCHANGED <<exitCode, failure>>
     ELSE /\ pc' = "exit"
          /\ exitCode' = 1
          /\ failure' = Error("Invalid environment", "", "")
  /\ UNCHANGED <<stage, args, nodeEnv, steps, warnings, cmds, fs, fs0, mText,
                 mOut, raised>>

PreDeploymentChecks ==
  /\ stage = "deploy"
  /\ \E branch \in {"throw", "develop", "staging", "main"},
        porcelain \in {"throw", "", " M index.html"} :
       Step(DeploySteps, "preDeploymentChecks",
            preDeploymentChecks(fs, manager, branch, porcelain))

\* `npm run build` may or may not leave an output directory behind.
BuildProject ==
  /\ stage = "deploy"
  /\ \E ci \in {0, 1}, build \in {0, 1},
        out \in {fs, mkdirSync(fs, <<"dist">>), rmSync(fs, <<"dist">>)} :
       Step(DeploySteps, "buildProject",
            buildProject(fs, manager, ci, build, out))

RunTests ==
  /\ stage = "deploy"
  /\ \E test \in {0, 1} :
       Step(DeploySteps, "runTests", runTests(fs, manager, test))

Deploy ==
  /\ stage = "deploy"
  /\ \E wrangler \in {0, 1} :
       Step(DeploySteps, "deploy", deploy(fs, manager, wrangler))

PostDeployment ==
  /\ stage = "deploy"
  /\ Step(DeploySteps, "postDeployment", postDeployment(fs, manager))

DeployRun ==
  \/ DeployCLI
  \/ PreDeploymentChecks
  \/ BuildProject
  \/ RunTests
  \/ Deploy
  \/ PostDeployment

DeployTrees ==
  {Merge(Files(present, PlainText), DistTree(dist))
     : present \in SUBSET {<<"package.json">>, <<"wrangler.toml">>},
       dist \in {"absent", "empty"}}

\* Environment names given on the command line: none, the three configured
\* ones, the empty string, a name that is no property at all, and names of
\* properties CONFIG inherits.
DeployArgs ==
  {<< >>, <<"">>, <<"development">>, <<"staging">>, <<"production">>,
   <<"qa">>, <<"constructor">>, <<"toString">>}

InitDeploy ==
  /\ stage = "deploy"
  /\ args \in DeployArgs
  /\ nodeEnv = ""
  /\ fs \in DeployTrees

(***************************************************************************)
(* Setup script.                                                           *)
(***************************************************************************)
\* The CLI's options object.
SetupOptions(a) ==
  [verbose     |-> "--verbose" \in a \/ "-v" \in a,
   skipInstall |-> "--skip-install" \in a,
   dev         |-> "--dev" \in a \/ "-d" \in a]

\* SetupManager.constructor
SetupManager(options) ==
  [constructed |-> TRUE, verbose |-> options.verbose,
   skipInstall |-> options.skipInstall, dev |-> options.dev]

\* The lowest supported major version of Node.js.
MinNodeMajor == 16

\* SetupManager.checkSystemRequirements.  major is the major version of the
\* running Node.js, npm and git the exit statuses of their --version calls.
checkSystemRequirements(f, m, major, npm, git) ==
  IF major < MinNodeMajor
  THEN Throw(f, "System requirements check failed",
             "Node.js is not supported", "")
  ELSE IF npm # 0
  THEN Result(f, Error("System requirements check failed",
                       "npm is not available", ""),
              {}, << Cmd("npm --version", npm) >>)
  ELSE Result(f, NoError,
              IF git # 0
              THEN {"Git is not available - some features may not work"}
              ELSE {},
              << Cmd("npm --version", npm), Cmd("git --version", git) >>)

directories ==
  << <<"dist">>, <<"temp">>, <<"logs">>, <<"assets", "images">>,
     <<"assets", "icons">> >>

\* The loop of createDirectories from entry i on.
RECURSIVE CreateFrom(_, _, _)
CreateFrom(f, i, fault) ==
  IF i > Len(directories) THEN Ok(f)
  ELSE IF ~existsSync(f, directories[i])
       THEN IF fault = "mkdirSync" \/ ~mkdirOk(f, directories[i])
            THEN Throw(f, "Failed to create directories", "mkdirSync",
                       Errno(fault, "mkdirSync", "EEXIST"))
            ELSE CreateFrom(mkdirSync(f, directories[i]), i + 1, fault)
       ELSE CreateFrom(f, i + 1, fault)

\* SetupManager.createDirectories
createDirectories(f, m, fault) == CreateFrom(f, 1, fault)

\* installDependencies with the exit statuses of npm ignored.
installDependencies_IgnoreStatus(f, m, prod, all) ==
  IF m.skipInstall THEN Ok(f)
  ELSE IF ~existsSync(f, <<"package.json">>)
  THEN Throw(f, "Failed to install dependencies", "package.json not found",
             "")
  ELSE Result(f, NoError, {},
              << Cmd("npm ci --only=production", prod) >>
              \o (IF m.dev THEN << Cmd("npm ci", all) >> ELSE << >>))

\* SetupManager.installDependencies.  prod and all are the exit statuses
\* of `npm ci --only=production` and `npm ci`.
installDependencies(f, m, prod, all) ==
  IF m.skipInstall THEN Ok(f)
  ELSE IF ~existsSync(f, <<"package.json">>)
  THEN Throw(f, "Failed to install dependencies", "package.json not found",
             "")
  ELSE IF prod # 0
  THEN Result(f, Error("Failed to install dependencies",
                       "npm ci --only=production", ""),
              {}, << Cmd("npm ci --only=production", prod) >>)
  ELSE IF m.dev
  THEN Result(f,
              IF all # 0
              THEN Error("Failed to install dependencies", "npm ci", "")
              ELSE NoError,
              {}, << Cmd("npm ci --only=production", prod),
                     Cmd("npm ci", all) >>)
  ELSE Result(f, NoError, {}, << Cmd("npm ci --only=production", prod) >>)

\* What initializeGitHooks hands back when one of its calls threw: its one
\* catch block logs "Skipping git hooks setup (not a git repository)" at
\* the verbose level and the step returns.
Skipped(f, m, run, calls) ==
  [fs |-> f, err |-> NoError,
   warn |-> IF m.verbose
            THEN {"Skipping git hooks setup (not a git repository)"}
            ELSE {},
   run |-> run, raised |-> calls]

\* SetupManager.initializeGitHooks.  git is the exit status of `git
\* rev-parse --git-dir`; the one catch block swallows that failure and
\* every file-system error alike, so the step always returns.
initializeGitHooks(f, m, git, platform, fault) ==
  LET hooksDir == <<".git", "hooks">>
      preCommitPath == Append(hooksDir, "pre-commit")
      run == << Cmd("git rev-parse --git-dir", git) >>
      thrown(call, natural) ==
        {[call |-> call, code |-> Errno(fault, call, natural)]}
  IN IF git # 0 THEN Skipped(f, m, run, {})
     ELSE IF ~existsSync(f, hooksDir)
             /\ (fault = "mkdirSync" \/ ~mkdirOk(f, hooksDir))
     THEN Skipped(f, m, run, thrown("mkdirSync", "ENOTDIR"))
     ELSE LET g == IF ~existsSync(f, hooksDir) THEN mkdirSync(f, hooksDir)
                   ELSE f
          IN IF fault = "writeFileSync" \/ ~writeOk(g, preCommitPath)
             THEN Skipped(g, m, run, thrown("writeFileSync", "EISDIR"))
             ELSE LET h == writeFileSync(g, preCommitPath, PlainText)
                  IN IF platform # "win32" /\ fault = "chmodSync"
                     THEN Skipped(h, m, run, thrown("chmodSync", "EPERM"))
                     ELSE Result(h, NoError, {}, run)

\* The writes of createConfigFiles: each file only if it does not exist.
RECURSIVE WriteMissing(_, _)
WriteMissing(f, paths) ==
  IF paths = << >> THEN f
  ELSE WriteMissing(IF existsSync(f, Head(paths)) THEN f
                    ELSE writeFileSync(f, Head(paths), PlainText),
                    Tail(paths))

\* SetupManager.createConfigFiles
createConfigFiles(f, m, fault) ==
  LET wanted == << <<".env.example">> >>
                \o (IF m.dev THEN << <<".env">> >> ELSE << >>)
                \o << <<"Makefile">> >>
      missing == SelectSeq(wanted, LAMBDA p : ~existsSync(f, p))
  IN IF missing # << >> /\ fault = "writeFileSync"
     THEN Throw(f, "Failed to create config files", "writeFileSync", "EACCES")
     ELSE Ok(WriteMissing(f, wanted))

criticalFiles ==
  << [file |-> <<"package.json">>, required |-> TRUE],
     [file |-> <<"index.html">>, required |-> TRUE],
     [file |-> <<"css", "style.css">>, required |-> FALSE],
     [file |-> <<"js", "main.js">>, required |-> FALSE],
     [file |-> <<"wrangler.toml">>, required |-> FALSE] >>

\* SetupManager.runHealthChecks.  parses tells whether package.json holds
\* valid JSON; package.json exists once the required files were found.
runHealthChecks(f, m, parses, fault) ==
  LET missing == SelectSeq(criticalFiles,
                   LAMBDA c : c.required /\ ~existsSync(f, c.file))
  IN IF missing # << >>
     THEN Result(f, [msg |-> "Health checks failed",
                     cause |-> "Required file missing", code |-> "",
                     files |-> << missing[1].file >>], {}, << >>)
     ELSE IF fault = "readFileSync"
     THEN Throw(f, "Health checks failed", "readFileSync", "EACCES")
     ELSE IF ~parses
     THEN Throw(f, "Health checks failed", "JSON.parse", "")
     ELSE Ok(f)

\* The steps of SetupManager.setup in the order it awaits them.
SetupSteps ==
  <<"checkSystemRequirements", "createDirectories", "installDependencies",
    "initializeGitHooks", "createConfigFiles", "runHealthChecks">>

\* The setup script's CLI: parse the flags and construct the SetupManager.
SetupCLI ==
  /\ stage = "setup" /\ pc = "cli"
  /\ manager' = SetupManager(SetupOptions(args))
  /\ pc' = SetupSteps[1]
  /\ UNCHANGED <<stage, args, nodeEnv, steps, exitCode, failure, warnings,
                 cmds, fs, fs0, mText, mOut, raised>>

CheckSystemRequirements ==
  /\ stage = "setup"
  /\ \E major \in {14, 16, 20}, npm \in {0, 1}, git \in {0, 1} :
       Step(SetupSteps, "checkSystemRequirements",
            checkSystemRequirements(fs, manager, major, npm, git))

CreateDirectories ==
  /\ stage = "setup"
  /\ \E fault \in {"none", "mkdirSync"} :
       Step(SetupSteps, "createDirectories",
            createDirectories(fs, manager, fault))

InstallDependencies ==
  /\ stage = "setup"
  /\ \E prod \in {0, 1}, all \in {0, 1} :
       Step(SetupSteps, "installDependencies",
            installDependencies(fs, manager, prod, all))

InitializeGitHooks ==
  /\ stage = "setup"
  /\ \E git \in {0, 1}, platform \in {"linux", "win32"},
        fault \in {"none", "mkdirSync", "writeFileSync", "chmodSync"} :
       Step(SetupSteps, "initializeGitHooks",
            initializeGitHooks(fs, manager, git, platform, fault))

CreateConfigFiles ==
  /\ stage = "setup"
  /\ \E fault \in {"none", "writeFileSync"} :
       Step(SetupSteps, "createConfigFiles",
            createConfigFiles(fs, manager, fault))

RunHealthChecks ==
  /\ stage = "setup"
  /\ \E parses \in BOOLEAN, fault \in {"none", "readFileSync"} :
       Step(SetupSteps, "runHealthChecks",
            runHealthChecks(fs, manager, parses, fault))

Setup ==
  \/ SetupCLI
  \/ CheckSystemRequirements
  \/ CreateDirectories
  \/ InstallDependencies
  \/ InitializeGitHooks
  \/ CreateConfigFiles
  \/ RunHealthChecks

SetupTrees ==
  {Merge(Files(present, PlainText), DistTree(dist))
     : present \in SUBSET {<<"package.json">>, <<"index.html">>, <<".env">>,
                           <<".git">>},
       dist \in {"absent", "empty"}}

SetupFlags == {"--skip-install", "--dev", "-v"}

InitSetup ==
  /\ stage = "setup"
  /\ args \in SUBSET SetupFlags
  /\ nodeEnv = ""
  /\ fs \in SetupTrees

(***************************************************************************)
(* Applying a minifier to its own output.                                  *)
(***************************************************************************)
MinifyCSSPass ==
  /\ stage = "minify" /\ pc = "css" /\ Len(mOut) < 2
  /\ mOut' = Append(mOut, minifyCSS(IF mOut = << >> THEN mText
                                    ELSE mOut[Len(mOut)]))
  /\ UNCHANGED <<stage, args, nodeEnv, manager, pc, steps, exitCode, failure,
                 warnings, cmds, fs, fs0, mText, raised>>

MinifyJSPass ==
  /\ stage = "minify" /\ pc = "js" /\ Len(mOut) < 2
  /\ mOut' = Append(mOut, minifyJS(IF mOut = << >> THEN mText
                                   ELSE mOut[Len(mOut)]))
  /\ UNCHANGED <<stage, args, nodeEnv, manager, pc, steps, exitCode, failure,
                 warnings, cmds, fs, fs0, mText, raised>>

InitCommon ==
  /\ manager = NoManager
  /\ steps = << >>
  /\ exitCode = -1
  /\ failure = NoError
  /\ warnings = {}
  /\ cmds = << >>
  /\ raised = {}

InitMinify ==
  /\ stage = "minify"
  /\ pc \in {"css", "js"}
  /\ mText \in Texts
  /\ mOut = << >>
  /\ args = << >> /\ nodeEnv = "" /\ fs = EmptyFs /\ fs0 = fs
  /\ InitCommon

NextMinify == MinifyCSSPass \/ MinifyJSPass

SpecMinify == InitMinify /\ [][NextMinify]_vars

Init ==
  /\ (InitBuild \/ InitDeploy \/ InitSetup)
  /\ pc = "cli"
  /\ fs0 = fs
  /\ mText = << >> /\ mOut = << >>
  /\ InitCommon

Next == Build \/ DeployRun \/ Setup

Spec == Init /\ [][Next]_vars

(***************************************************************************)
(* Properties.                                                             *)
(***************************************************************************)
\* The step has been started.
Ran(step) == \E i \in 1..Len(steps) : steps[i] = step

\* The step was the last one started.
Last(step) == steps # << >> /\ steps[Len(steps)] = step

\* The step has returned without throwing.
Returned(step) ==
  \E i \in 1..Len(steps) :
    steps[i] = step /\ (i < Len(steps) \/ failure = NoError)

\* The external command has been run / has been run and exited non-zero.
Executed(line) == \E i \in 1..Len(cmds) : cmds[i].cmd = line
Failed(line) ==
  \E i \in 1..Len(cmds) : cmds[i].cmd = line /\ cmds[i].status # 0

Exited == pc = "exit"

ConfiguredEnvironments == {"development", "staging", "production"}

\* C1: when deploy is invoked with an environment name other than
\* development, staging or production, the process exits with a non-zero
\* status and no external command has been executed.
C1_UnknownEnvironmentExitsBeforeAnyCommand ==
  (stage = "deploy" /\ EnvironmentOf(args) \notin ConfiguredEnvironments)
  => (cmds = << >> /\ (Exited => exitCode # 0))

\* C2: in DeploymentManager.run a failing test command aborts the run if
\* and only if the environment is production: there the deploy step never
\* runs and the process exits non-zero; elsewhere the failure is a warning
\* and the deploy step is the next to run.
C2_TestFailureFatalOnlyInProduction ==
  (stage = "deploy" /\ Ran("runTests"))
  => /\ (Failed("npm test") /\ manager.environment = "production")
          => (~Ran("deploy") /\ Exited /\ exitCode = 1
              /\ failure.msg = "Tests failed")
     /\ ~(Failed("npm test") /\ manager.environment = "production")
          => (Returned("runTests") /\ (pc = "deploy" \/ Ran("deploy")))
     /\ (Failed("npm test") /\ manager.environment # "production")
          => "Tests failed, but continuing deployment for non-production environment"
               \in warnings

C2_Witness_ProductionTestFailure ==
  /\ stage = "deploy" /\ manager.constructed
  /\ manager.environment = "production"
  /\ Last("runTests") /\ Failed("npm test")
  /\ Exited /\ exitCode = 1

\* The fixed order of the steps of the stage that was started.
StageSteps ==
  CASE stage = "build"  -> BuildSteps
    [] stage = "deploy" -> DeploySteps
    [] stage = "setup"  -> SetupSteps

\* C3: in each of the three stages the steps run one at a time in their
\* fixed order; once a step has signalled a failure no later step runs and
\* the process exits with status 1; when no step fails the process exits
\* with status 0 after the last step.
C3_StepsInOrderAbortOnFirstFailure ==
  stage \in {"build", "deploy", "setup"}
  => /\ Len(steps) <= Len(StageSteps)
     /\ \A i \in 1..Len(steps) : steps[i] = StageSteps[i]
     /\ pc \notin {"cli", "exit"}
          => (pc = StageSteps[Len(steps) + 1] /\ exitCode = -1
              /\ failure = NoError)
     /\ failure # NoError => (Exited /\ exitCode = 1)
     /\ (Exited /\ failure = NoError)
          => (exitCode = 0 /\ steps = StageSteps)

C3_Witness_AbortedMidway ==
  /\ stage = "setup"
  /\ steps = SubSeq(SetupSteps, 1, 3)
  /\ failure # NoError /\ Exited /\ exitCode = 1

\* C4: in the pre-deployment checks a branch mismatch, a dirty working tree
\* or a failing git command never aborts the run: each only prints a
\* message, the step throws exactly when package.json is missing, and
\* otherwise the build step is the next to run.
C4_GitChecksNeverAbort ==
  (stage = "deploy" /\ Ran("preDeploymentChecks"))
  => /\ existsSync(fs0, <<"package.json">>)
          => (Returned("preDeploymentChecks")
              /\ (pc = "buildProject" \/ Ran("buildProject")))
     /\ ~existsSync(fs0, <<"package.json">>)
          => (Exited /\ exitCode = 1
              /\ failure.msg = "package.json not found in current directory")
     /\ (Failed("git branch --show-current")
          => "Failed to check git branch" \in warnings)
     /\ (Failed("git status --porcelain")
          => "Failed to check git status" \in warnings)

C4_Witness_WarningsThenBuild ==
  /\ stage = "deploy" /\ Last("preDeploymentChecks")
  /\ "Failed to check git branch" \in warnings
  /\ "You have uncommitted changes" \in warnings
  /\ pc = "buildProject"

distDir == BUILD_CONFIG.distDir
hashMapPath == Append(distDir, "hashes.json")

\* The regular files of tree f under the output directory.
DistFiles(f) == {p \in DOMAIN f.files : IsPrefix(distDir, p) /\ p # distDir}

\* The output directory exists as a directory and has no entry.
DistEmpty(f) == IsDir(f, distDir) /\ readdirSync(f, distDir) = {}

\* C5: whenever the output directory held files before the build, once
\* cleanBuild has run (it was not skipped by --no-clean, and it returned)
\* the output directory exists and is empty.
C5_CleanBuildLeavesEmptyDirectory ==
  (stage = "build" /\ DistFiles(fs0) # {}
     /\ Last("cleanBuild") /\ Returned("cleanBuild") /\ manager.clean)
  => DistEmpty(fs)

C5_Witness_StaleOutputCleaned ==
  /\ stage = "build" /\ DistFiles(fs0) # {}
  /\ Last("cleanBuild") /\ Returned("cleanBuild") /\ manager.clean
  /\ DistEmpty(fs)

\* After copyStaticFiles a static destination is a file of the output tree
\* only if its source exists.
OnlyExistingSourcesCopied ==
  \A i \in 1..Len(staticFiles) :
    IsFile(fs, distDir \o staticFiles[i].dest)
      => existsSync(fs, staticFiles[i].src)

\* copyStaticFiles did not fail, except through a fault of the copy call
\* that has nothing to do with an absent source.
CopySucceeded ==
  Returned("copyStaticFiles") \/ failure.code = "EACCES"

\* C6 as claimed: whatever static sources are absent, copyStaticFiles
\* succeeds, and afterwards a static destination file is in the output
\* tree only if its source exists.
C6_AbsentSourcesSkipped ==
  (stage = "build" /\ Last("copyStaticFiles"))
  => (CopySucceeded /\ (Returned("copyStaticFiles") => OnlyExistingSourcesCopied))

\* The output directory as copyStaticFiles finds it: a directory holding no
\* static destination whose source is absent.  cleanBuild with cleaning on
\* establishes this; with --no-clean it is a condition on the tree the
\* build starts from.
OutputReadyForCopy ==
  \/ manager.clean
  \/ /\ IsDir(fs0, distDir)
     /\ \A i \in 1..Len(staticFiles) :
          IsFile(fs0, distDir \o staticFiles[i].dest)
            => existsSync(fs0, staticFiles[i].src)

\* C6 amended: provided the output directory exists when copyStaticFiles
\* starts and holds no static destination whose source is absent, the step
\* does not fail because of an absent source, and afterwards a static
\* destination file is in the output tree only if its source exists.
C6_AbsentSourcesSkippedInPreparedOutput ==
  (stage = "build" /\ Last("copyStaticFiles") /\ OutputReadyForCopy)
  => (CopySucceeded /\ (Returned("copyStaticFiles") => OnlyExistingSourcesCopied))

C6_Witness_SomeSourcesAbsent ==
  /\ stage = "build" /\ Last("copyStaticFiles") /\ Returned("copyStaticFiles")
  /\ OutputReadyForCopy
  /\ existsSync(fs, <<"index.html">>) /\ ~existsSync(fs, <<"article.html">>)
  /\ IsFile(fs, distDir \o <<"index.html">>)
  /\ ~IsFile(fs, distDir \o <<"article.html">>)

\* The build was started without a production flag.
NoProductionFlag == "--production" \notin args /\ "-p" \notin args

\* The names in directory dir of tree f that end in suffix.
Named(f, dir, suffix) == {n \in readdirSync(f, dir) : endsWith(n, suffix)}

\* The project holds index.html and at least one CSS and one JS file.
InputsPresent ==
  /\ IsFile(fs0, <<"index.html">>)
  /\ Named(fs0, BUILD_CONFIG.cssDir, ".css") # {}
  /\ Named(fs0, BUILD_CONFIG.jsDir, ".js") # {}

\* Every CSS and JS source file is in the output tree with its own content.
CopiedUnmodified ==
  /\ \A n \in Named(fs0, BUILD_CONFIG.cssDir, ".css") :
       /\ IsFile(fs, distDir \o <<"css", n>>)
       /\ fs.files[distDir \o <<"css", n>>] = fs0.files[<<"css", n>>]
  /\ \A n \in Named(fs0, BUILD_CONFIG.jsDir, ".js") :
       /\ IsFile(fs, distDir \o <<"js", n>>)
       /\ fs.files[distDir \o <<"js", n>>] = fs0.files[<<"js", n>>]

\* The build has written no hashes.json: if there is one, it is the file
\* the build found when it started, unchanged.
NoHashesWritten ==
  IsFile(fs, hashMapPath)
    => (IsFile(fs0, hashMapPath)
        /\ fs.json[hashMapPath] = fs0.json[hashMapPath])

\* The run is over and no file-system call failed in it.
FinishedWithoutFsError == Exited /\ failure.code = ""

\* C7 as claimed: a build run with no production flag whose inputs include
\* index.html and CSS/JS files passes validation, writes no hashes.json and
\* writes every CSS and JS file to the output with its source's content
\* (in a run in which no file-system call fails).
C7_DevelopmentBuildCopiesUnmodified ==
  (stage = "build" /\ pc # "cli" /\ NoProductionFlag /\ InputsPresent)
  => /\ NoHashesWritten
     /\ FinishedWithoutFsError => (exitCode = 0 /\ CopiedUnmodified)

\* C7 amended: the same for a build run with no production flag and with
\* NODE_ENV other than "production".
C7_DevelopmentBuildCopiesUnmodifiedUnlessNodeEnv ==
  (stage = "build" /\ pc # "cli" /\ NoProductionFlag /\ InputsPresent
     /\ nodeEnv # "production")
  => /\ NoHashesWritten
     /\ FinishedWithoutFsError => (exitCode = 0 /\ CopiedUnmodified)

C7_Witness_DevelopmentBuildDone ==
  /\ stage = "build" /\ Exited /\ exitCode = 0
  /\ NoProductionFlag /\ InputsPresent /\ nodeEnv # "production"
  /\ ~IsFile(fs, hashMapPath)
  /\ fs.files[distDir \o <<"css", "a.css">>] = CssText
  /\ minifyCSS(CssText) # CssText

\* The CSS and JS files anywhere under the output root, as paths relative
\* to it.
HashedPaths ==
  {relative(distDir, p) :
     p \in {q \in DistFiles(fs) :
              Ext(q[Len(q)]) \in {".css", ".js"}}}

\* C8: after generateHashes has returned in a build started with the
\* production flag, hashes.json exists in the output root, its keys are
\* exactly the relative paths of the CSS and JS files under the output
\* root, and each value is the first 8 hex digits of the MD5 digest of
\* that file's content.
C8_HashesCoverExactlyCssAndJs ==
  (stage = "build" /\ ~NoProductionFlag /\ Returned("generateHashes"))
  => /\ IsFile(fs, hashMapPath)
     /\ hashMapPath \in DOMAIN fs.json
     /\ DOMAIN fs.json[hashMapPath] = HashedPaths
     /\ \A k \in HashedPaths :
          /\ Len(fs.json[hashMapPath][k]) = 8
          /\ \A i \in 1..8 :
               /\ fs.json[hashMapPath][k][i] \in HexDigits
               /\ fs.json[hashMapPath][k][i] = Md5Hex(fs.files[distDir \o k])[i]

C8_Witness_NestedFilesHashed ==
  /\ stage = "build" /\ ~NoProductionFlag /\ Returned("generateHashes")
  /\ {<<"css", "a.css">>, <<"js", "b.js">>, <<"src", "lib", "x.css">>,
      <<"old.js">>} \subseteq HashedPaths
  /\ fs.json[hashMapPath][<<"css", "a.css">>]
       = <<"2", "1", "b", "0", "3", "0", "4", "4">>

\* C9: validateBuild fails the run, naming the missing files, whenever
\* index.html is absent from the output directory, and fails the run
\* whenever the output directory is empty; it passes only when every
\* required file exists and the directory is not empty.
C9_ValidationRequiresIndexAndContent ==
  (stage = "build" /\ Ran("validateBuild"))
  => /\ ~existsSync(fs, distDir \o <<"index.html">>)
          => /\ Exited /\ exitCode = 1
             /\ failure.msg = "Build validation failed"
             /\ failure.cause = "Missing required files"
             /\ failure.files = << <<"index.html">> >>
     /\ (~IsDir(fs, distDir) \/ readdirSync(fs, distDir) = {})
          => (Exited /\ exitCode = 1 /\ failure.msg = "Build validation failed")
     /\ failure = NoError
          => /\ exitCode = 0
             /\ \A i \in 1..Len(requiredFiles) :
                  existsSync(fs, distDir \o requiredFiles[i])
             /\ readdirSync(fs, distDir) # {}

C9_Witness_MissingIndexReported ==
  /\ stage = "build" /\ Last("validateBuild")
  /\ readdirSync(fs, distDir) # {}
  /\ failure.cause = "Missing required files"
  /\ failure.files = << <<"index.html">> >>
  /\ exitCode = 1

\* C10: for every input text without comment delimiters, applying a
\* minifier to its own output changes nothing:
\* minifyCSS(minifyCSS(t)) = minifyCSS(t), minifyJS(minifyJS(t)) = minifyJS(t).
C10_MinifyIdempotentWithoutComments ==
  (stage = "minify" /\ Len(mOut) = 2 /\ ~HasCommentDelimiter(mText))
  => mOut[2] = mOut[1]

\* C11: in setup, build and deploy, once an fs call (mkdir, write, copy,
\* chmod, read, remove) has thrown, the step that made the call is the last
\* one started, no later step runs, and the process has exited with a
\* non-zero status.
C11_FsErrorsAlwaysFatal ==
  \A e \in raised : Last(e.step) /\ Exited /\ exitCode # 0

\* The commands that ask git a question: the branch and status checks of
\* deploy, the availability and repository checks of setup.
GitCommands ==
  {"git branch --show-current", "git status --porcelain", "git --version",
   "git rev-parse --git-dir"}

\* The i-th command run was the last one and ended the run with status 1.
FatalAt(i) == i = Len(cmds) /\ Exited /\ exitCode = 1

\* The test command of a deploy to an environment other than production.
NonProductionTest(c) ==
  c.cmd = "npm test" /\ manager.environment # "production"

\* C12 as stated: an external command that exits non-zero ends the run with
\* a non-zero status, unless it is the branch or the status check of the
\* deploy script or the test command outside production.
C12_ProcessFailuresFatalButTwo ==
  \A i \in 1..Len(cmds) :
    cmds[i].status # 0 =>
      \/ cmds[i].cmd \in {"git branch --show-current", "git status --porcelain"}
      \/ NonProductionTest(cmds[i])
      \/ FatalAt(i)

\* C12 amended: an external command that exits non-zero ends the run with
\* a non-zero status, unless it is one of the four git commands (branch and
\* status checks of deploy, `git --version` and `git rev-parse --git-dir`
\* of setup) or the test command outside production.
C12_ProcessFailuresFatalButGitAndTests ==
  \A i \in 1..Len(cmds) :
    cmds[i].status # 0 =>
      \/ cmds[i].cmd \in GitCommands
      \/ NonProductionTest(cmds[i])
      \/ FatalAt(i)

\* Setup went on after git was found missing and was then ended by a
\* failing `npm ci --only=production`.
C12_Witness_GitMissingThenNpmFatal ==
  /\ stage = "setup"
  /\ Failed("git --version")
  /\ Failed("npm ci --only=production")
  /\ Last("installDependencies") /\ Exited /\ exitCode = 1

\* The i-th command run is the external deployment command.
IsDeployCommand(i) ==
  cmds[i].cmd = "npx wrangler pages deploy ./dist --project-name="

\* Before the i-th command, `line` was run; with zero set, it exited zero.
RanBefore(line, i, zero) ==
  \E k \in 1..(i - 1) :
    cmds[k].cmd = line /\ (zero => cmds[k].status = 0)

\* C13: in the deploy stage the deployment command is executed only after
\* `npm ci` and `npm run build` have both exited zero, buildProject has
\* found the build directory and returned, and `npm test` has been run
\* (and, in production, has exited zero).
C13_DeployOnlyAfterBuildAndTests ==
  \A i \in 1..Len(cmds) :
    IsDeployCommand(i) =>
      /\ stage = "deploy"
      /\ RanBefore("npm ci", i, TRUE)
      /\ RanBefore("npm run build", i, TRUE)
      /\ Returned("buildProject")
      /\ HasProp(manager.config, "buildDir")
      /\ RanBefore("npm test", i, manager.environment = "production")
      /\ Returned("runTests")

\* A staging deploy whose tests failed has run the deployment command.
C13_Witness_DeployedAfterFailedStagingTests ==
  /\ stage = "deploy" /\ manager.constructed
  /\ manager.environment = "staging"
  /\ Failed("npm test")
  /\ \E i \in 1..Len(cmds) : IsDeployCommand(i)

\* validateBuild was the last step started and it threw.
ValidationFailed == stage = "build" /\ Last("validateBuild") /\ failure # NoError

\* Wherever the required-file check passes, the output directory has an
\* entry, and 'Build directory is empty' is never reported.
EmptyMessageUnreachable ==
  /\ (stage = "build" /\ existsSync(fs, distDir \o <<"index.html">>))
       => (IsDir(fs, distDir) /\ readdirSync(fs, distDir) # {})
  /\ failure.cause # "Build directory is empty"

\* C14 as stated: 'Build directory is empty' is unreachable, and every
\* failure validateBuild reports is 'Missing required files'.
C14_OnlyMissingFilesReported ==
  /\ EmptyMessageUnreachable
  /\ ValidationFailed => failure.cause = "Missing required files"

\* C14 amended: 'Build directory is empty' is unreachable, and every
\* failure validateBuild reports is either 'Missing required files' or the
\* system error of fs.readdirSync on the output directory.
C14_OnlyMissingFilesOrReadError ==
  /\ EmptyMessageUnreachable
  /\ ValidationFailed =>
       \/ failure.cause = "Missing required files"
       \/ failure.cause = "readdirSync" /\ failure.code # ""

\* Validation of an existing, empty output directory reported the missing
\* index.html, not the empty directory.
C14_Witness_EmptyOutputReportedAsMissing ==
  /\ ValidationFailed
  /\ DistEmpty(fs)
  /\ failure.cause = "Missing required files"

\* The build was started with --no-clean and without an output directory.
NoCleanWithoutOutput ==
  stage = "build" /\ "--no-clean" \in args /\ ~existsSync(fs0, distDir)

\* Some static source file existed when the build started.
StaticSourceExists ==
  \E i \in 1..Len(staticFiles) : existsSync(fs0, staticFiles[i].src)

\* The run was ended by the copy of a static file.
CopyFailed == Last("copyStaticFiles") /\ failure.cause = "copyFileSync"

\* The run was ended by validation reporting index.html as missing.
IndexReportedMissing ==
  /\ Last("validateBuild")
  /\ failure.cause = "Missing required files"
  /\ failure.files = << <<"index.html">> >>

\* No fs call failed for a reason outside the project tree (permissions).
NoOutsideFault == \A e \in raised : e.code # "EACCES"

\* cleanBuild was skipped and left the output directory absent.
PreparerSkipped ==
  (Returned("cleanBuild") /\ pc = "copyStaticFiles") => ~existsSync(fs, distDir)

\* C15 as stated: a build run with --no-clean while the output directory
\* does not exist skips cleanBuild without creating the directory, and
\* ends with status 1: by the failed copy of the first existing static
\* file, or, when no static source exists, by validation reporting the
\* missing index.html.
C15_NoCleanWithoutOutputFails ==
  NoCleanWithoutOutput =>
    /\ PreparerSkipped
    /\ (Exited /\ NoOutsideFault) =>
         /\ exitCode = 1
         /\ IF StaticSourceExists THEN CopyFailed ELSE IndexReportedMissing

\* A production build that found no css, js or src directory: no step
\* before generateHashes creates the output directory.
NothingCreatesOutput ==
  /\ manager.isProduction
  /\ ~existsSync(fs0, BUILD_CONFIG.cssDir)
  /\ ~existsSync(fs0, BUILD_CONFIG.jsDir)
  /\ ~existsSync(fs0, BUILD_CONFIG.srcDir)

\* The run was ended by the write of hashes.json into a missing directory.
HashWriteFailed ==
  /\ Last("generateHashes")
  /\ failure.cause = "writeFileSync" /\ failure.code = "ENOENT"

\* C15 amended: a build run with --no-clean while the output directory
\* does not exist skips cleanBuild without creating the directory and
\* always ends with status 1.  Unless an fs call fails for an outside
\* reason, it is ended by the failed copy of the first existing static
\* file; or, when no static source exists, by the write of hashes.json in
\* a production build with no css, js or src directory, and otherwise by
\* validation reporting the missing index.html.
C15_NoCleanWithoutOutputFailsSomewhere ==
  NoCleanWithoutOutput =>
    /\ PreparerSkipped
    /\ Exited => exitCode = 1
    /\ (Exited /\ NoOutsideFault) =>
         IF StaticSourceExists THEN CopyFailed
         ELSE IF NothingCreatesOutput THEN HashWriteFailed
         ELSE IndexReportedMissing

\* Without static sources the CSS step created the output directory and
\* validation ended the run for the missing index.html.
C15_Witness_ValidationEndsRun ==
  /\ NoCleanWithoutOutput /\ ~StaticSourceExists
  /\ IsDir(fs, distDir)
  /\ IndexReportedMissing /\ exitCode = 1
=============================================================================
